---- MODULE Spec2Model ----
(***************************************************************************)
(* NIA: the logging layer (logging_config.py: setup_logging, LogContext)   *)
(* and the cognitive stub built on it (brain_core.py: NiaBrainCore).       *)
(*                                                                         *)
(* Strings that the code inspects (prompts, the reasoning response) are    *)
(* sequences of one-character strings.  A log message is a tuple whose     *)
(* first element is the fixed text of the f-string and whose other         *)
(* elements are the interpolated values.                                   *)
(***************************************************************************)
EXTENDS Integers, Sequences, FiniteSets, TLC

VARIABLES
    fault,                  \* faults of the environment's file system
    loaded,                 \* import state of the module logging_config
    loggers,                \* logging.getLogger registry: name -> logger
    events,                 \* LogRecords the loggers have accepted, in order
    sinkOut,                \* destination -> lines written to it, in order
    clock,                  \* datetime.now(), in seconds
    brain,                  \* TRUE once a NiaBrainCore has been constructed
    memory_context,         \* NiaBrainCore.memory_context
    conversation_history,   \* NiaBrainCore.conversation_history
    ctx,                    \* LogContext instances the application created
    stack,                  \* instances whose with-block is running, innermost last
    exc,                    \* the error in flight inside the running with-blocks
    trace                   \* the application's steps with their outcomes, in order

vars == << fault, loaded, loggers, events, sinkOut, clock, brain,
           memory_context, conversation_history, ctx, stack, exc, trace >>

----------------------------------------------------------------------------
(* Bounds of the model *)

MaxSteps == 3
MaxClock == 1

----------------------------------------------------------------------------
(* Severities: the numeric levels of the logging module *)

DEBUG == 10
INFO == 20
WARNING == 30
ERROR == 40
CRITICAL == 50

Severities == {DEBUG, INFO, WARNING, ERROR, CRITICAL}

LevelName(l) ==
    CASE l = DEBUG -> "DEBUG"
      [] l = INFO -> "INFO"
      [] l = WARNING -> "WARNING"
      [] l = ERROR -> "ERROR"
      [] l = CRITICAL -> "CRITICAL"

----------------------------------------------------------------------------
(* Values *)

None == "None"
NoExc == [type |-> "None", val |-> ""]
NoTime == -1

Names == {"nia_core", "aux"}
Keys == {"", "k1"}
Values == {"v1", "v2"}

ERROR_LOG == "nia_errors.log"
INFO_LOG == "nia_info.log"
AUDIT_LOG == "nia_audit.log"
CONSOLE == "stderr"
Dests == {ERROR_LOG, INFO_LOG, AUDIT_LOG, CONSOLE}

Faults == {"mkdir", "open:nia_errors.log", "open:nia_info.log",
           "open:nia_audit.log", "write"}

----------------------------------------------------------------------------
(* Strings *)

Str(cs) == [kind |-> "str", chars |-> cs, val |-> 0]
IntPrompt(n) == [kind |-> "int", chars |-> <<>>, val |-> n]

UpperAlpha == << "A","B","C","D","E","F","G","H","I","J","K","L","M",
                 "N","O","P","Q","R","S","T","U","V","W","X","Y","Z" >>
LowerAlpha == << "a","b","c","d","e","f","g","h","i","j","k","l","m",
                 "n","o","p","q","r","s","t","u","v","w","x","y","z" >>

LowerChar(c) ==
    IF \E i \in 1..Len(UpperAlpha) : UpperAlpha[i] = c
    THEN LowerAlpha[CHOOSE i \in 1..Len(UpperAlpha) : UpperAlpha[i] = c]
    ELSE c

\* str.lower() that leaves the string as it is.
Lower_identity(s) == s

\* str.lower()
Lower(s) == [i \in 1..Len(s) |-> LowerChar(s[i])]

\* sub in s
Contains(s, sub) ==
    \E i \in 1..(Len(s) - Len(sub) + 1) : SubSeq(s, i, i + Len(sub) - 1) = sub

\* s[:n]
Take(s, n) == SubSeq(s, 1, IF Len(s) < n THEN Len(s) ELSE n)

\* bool(prompt)
Truthy(p) ==
    CASE p.kind = "str" -> Len(p.chars) > 0
      [] p.kind = "int" -> p.val # 0
      [] OTHER -> FALSE

ErrorWord == << "e","r","r","o","r" >>

ResponsePrefix == << "R","e","a","s","o","n","i","n","g"," ",
                     "r","e","s","p","o","n","s","e"," ","t","o",":"," " >>

PromptLogLen == 100
ResultLogLen == 50

----------------------------------------------------------------------------
(* logging: records, handlers, delivery *)

LogRecord(name, levelno, filename, lineno, msg, exc_info, t) ==
    [name |-> name, levelno |-> levelno, filename |-> filename,
     lineno |-> lineno, msg |-> msg, exc_info |-> exc_info, created |-> t]

error_handler ==
    [dest |-> ERROR_LOG, level |-> ERROR, fmt |-> "LOG_FORMAT",
     maxBytes |-> 0, backupCount |-> 0]

info_handler ==
    [dest |-> INFO_LOG, level |-> INFO, fmt |-> "LOG_FORMAT",
     maxBytes |-> 10 * 1024 * 1024, backupCount |-> 5]

audit_handler ==
    [dest |-> AUDIT_LOG, level |-> INFO, fmt |-> "AUDIT",
     maxBytes |-> 0, backupCount |-> 0]

console_handler ==
    [dest |-> CONSOLE, level |-> WARNING, fmt |-> "CONSOLE",
     maxBytes |-> 0, backupCount |-> 0]

\* The handlers in the order setup_logging constructs and attaches them.
SetupHandlers == << error_handler, info_handler, audit_handler, console_handler >>

\* Formatter.format: the line a handler's template renders for a record.
\* rec is the record's position in the stream of accepted records: it stands
\* for the identity of the line, which the text alone does not give (asctime
\* has second resolution).
Format(fmt, r, idx) ==
    CASE fmt = "LOG_FORMAT" ->
            [rec |-> idx, asctime |-> r.created, name |-> r.name,
             levelname |-> LevelName(r.levelno), filename |-> r.filename,
             lineno |-> r.lineno, message |-> r.msg, exc_text |-> r.exc_info]
      [] fmt = "AUDIT" ->
            [rec |-> idx, asctime |-> r.created, tag |-> "AUDIT",
             levelname |-> LevelName(r.levelno), message |-> r.msg,
             exc_text |-> r.exc_info]
      [] fmt = "CONSOLE" ->
            [rec |-> idx, levelname |-> LevelName(r.levelno),
             message |-> r.msg, name |-> r.name, exc_text |-> r.exc_info]

\* Handler.handle without the level filter of the handler.
Handle_nofilter(h, r, idx, out) ==
    IF "write" \in fault
    THEN out
    ELSE [out EXCEPT ![h.dest] = Append(@, Format(h.fmt, r, idx))]

\* Handler.handle: the level filter of the handler, then emit.  A failing
\* write is caught inside emit (Handler.handleError) and the line is lost.
Handle(h, r, idx, out) ==
    IF r.levelno >= h.level
    THEN IF "write" \in fault
         THEN out
         ELSE [out EXCEPT ![h.dest] = Append(@, Format(h.fmt, r, idx))]
    ELSE out

\* Logger.callHandlers: every attached handler, in order of attachment.
RECURSIVE CallHandlers(_, _, _, _)
CallHandlers(hs, r, idx, out) ==
    IF hs = << >> THEN out
    ELSE CallHandlers(Tail(hs), r, idx, Handle(Head(hs), r, idx, out))

\* Logger.debug/info/warning/error/critical for each record of rs in turn:
\* the logger's own level filter, then the handlers.
RECURSIVE LogAll(_, _, _, _)
LogAll(rs, lgs, evs, out) ==
    IF rs = << >> THEN [events |-> evs, sinkOut |-> out]
    ELSE LET r == Head(rs)
             lg == lgs[r.name]
         IN IF r.levelno >= lg.level
            THEN LogAll(Tail(rs), lgs, Append(evs, r),
                        CallHandlers(lg.handlers, r, Len(evs) + 1, out))
            ELSE LogAll(Tail(rs), lgs, evs, out)

Emit(rs) ==
    LET res == LogAll(rs, loggers, events, sinkOut)
    IN /\ events' = res.events
       /\ sinkOut' = res.sinkOut

----------------------------------------------------------------------------
(* logging_config.setup_logging *)

\* A logger that logging.getLogger has not been asked for yet.
FreshLogger == [level |-> 0, handlers |-> << >>]

OpenFails(h) ==
    \/ h.dest = ERROR_LOG /\ "open:nia_errors.log" \in fault
    \/ h.dest = INFO_LOG /\ "open:nia_info.log" \in fault
    \/ h.dest = AUDIT_LOG /\ "open:nia_audit.log" \in fault

\* The handlers attached before the first one whose file cannot be opened.
RECURSIVE AttachHandlers(_, _)
AttachHandlers(hs, done) ==
    IF hs = << >> THEN [handlers |-> done, raised |-> NoExc]
    ELSE IF OpenFails(Head(hs))
         THEN [handlers |-> done,
               raised |-> [type |-> "OSError", val |-> Head(hs).dest]]
         ELSE AttachHandlers(Tail(hs), Append(done, Head(hs)))

\* setup_logging without the "already configured" early return.
setup_logging_noguard(lg) ==
    LET a == AttachHandlers(SetupHandlers, << >>)
    IN [logger |-> [level |-> DEBUG, handlers |-> lg.handlers \o a.handlers],
        raised |-> a.raised]

\* setup_logging(logger_name) on the registry entry lg: the logger as it is
\* left, and the error the call raises, if any.
setup_logging(lg) ==
    IF lg.handlers # << >>
    THEN [logger |-> lg, raised |-> NoExc]
    ELSE LET a == AttachHandlers(SetupHandlers, << >>)
         IN [logger |-> [level |-> DEBUG, handlers |-> a.handlers],
             raised |-> a.raised]

----------------------------------------------------------------------------
(* logging_config.LogContext *)

Label(fn, arg) == [fn |-> fn, arg |-> arg]

LogContext_init(operation_name, logger_instance) ==
    [operation |-> operation_name,
     logger |-> IF logger_instance = None THEN "nia_core" ELSE logger_instance,
     start_time |-> NoTime]

LogContext_enter(self, now) ==
    [self |-> [self EXCEPT !.start_time = now],
     recs |-> << LogRecord(self.logger, INFO, "logging_config.py", 105,
                           << "START", self.operation >>, NoExc, now) >>]

\* __exit__ that logs nothing when an error is in flight.
LogContext_exit_silent(self, e, now) ==
    [recs |->
       IF e = NoExc
       THEN << LogRecord(self.logger, INFO, "logging_config.py", 112,
                         << "COMPLETE", self.operation,
                            now - self.start_time >>, NoExc, now) >>
       ELSE << >>,
     suppress |-> FALSE]

\* __exit__ that returns True.
LogContext_exit_suppress(self, e, now) ==
    [recs |->
       IF e = NoExc
       THEN << LogRecord(self.logger, INFO, "logging_config.py", 112,
                         << "COMPLETE", self.operation,
                            now - self.start_time >>, NoExc, now) >>
       ELSE << LogRecord(self.logger, ERROR, "logging_config.py", 114,
                         << "FAILED", self.operation, now - self.start_time,
                            e.type, e.val >>, e, now) >>,
     suppress |-> TRUE]

LogContext_exit(self, e, now) ==
    LET duration == now - self.start_time
    IN [recs |->
          IF e = NoExc
          THEN << LogRecord(self.logger, INFO, "logging_config.py", 112,
                            << "COMPLETE", self.operation, duration >>,
                            NoExc, now) >>
          ELSE << LogRecord(self.logger, ERROR, "logging_config.py", 114,
                            << "FAILED", self.operation, duration,
                               e.type, e.val >>, e, now) >>,
        suppress |-> FALSE]

----------------------------------------------------------------------------
(* brain_core.NiaBrainCore *)

RetNone == [kind |-> "None", v |-> << >>]
RetStr(cs) == [kind |-> "str", v |-> cs]
RetBool(b) == [kind |-> "bool", v |-> b]
RetValue(x) == [kind |-> "value", v |-> x]
RetList(l) == [kind |-> "list", v |-> l]

EmptyDict == [k \in {} |-> None]

\* dict.update
Update(d, c) ==
    [k \in (DOMAIN d) \cup (DOMAIN c) |-> IF k \in DOMAIN c THEN c[k] ELSE d[k]]

\* d[key] = value
SetItem(d, key, value) ==
    [k \in (DOMAIN d) \cup {key} |-> IF k = key THEN value ELSE d[k]]

\* A call of the module-level logger from brain_core.py.
BrainRec(lineno, levelno, msg, exc_info, now) ==
    LogRecord("nia_core", levelno, "brain_core.py", lineno, msg, exc_info, now)

\* with LogContext(operation, logger): <body>, where body is the outcome of
\* the block: __enter__, the block, then __exit__ with the error the block
\* left in flight; the error is suppressed when __exit__ returns true.
With(operation, body, now) ==
    LET en == LogContext_enter(LogContext_init(operation, "nia_core"), now)
        ex == LogContext_exit(en.self, body.raised, now)
        swallowed == ex.suppress /\ body.raised # NoExc
    IN [body EXCEPT !.recs = en.recs \o body.recs \o ex.recs,
                    !.raised = IF swallowed THEN NoExc ELSE body.raised,
                    !.ret = IF swallowed THEN RetNone ELSE body.ret]

process_reasoning(prompt, now) ==
    LET e == [type |-> "RuntimeError", val |-> "Simulated reasoning error"]
        result == ResponsePrefix \o prompt.chars
        body ==
            IF Contains(Lower(prompt.chars), ErrorWord)
            THEN [recs |-> << BrainRec(99, ERROR,
                                << "Reasoning processing failed", e.val >>,
                                e, now) >>,
                  ret |-> RetNone, raised |-> e]
            ELSE [recs |-> << BrainRec(95, DEBUG,
                                << "Processed reasoning",
                                   Take(result, ResultLogLen) >>,
                                NoExc, now) >>,
                  ret |-> RetStr(result), raised |-> NoExc]
    IN With(Label("Brain._process_reasoning", ""), body, now)

\* A try block of think that records the conversation before it reasons.
think_try_early(prompt, context, mem, hist, now) ==
    IF ~Truthy(prompt) \/ prompt.kind # "str"
    THEN [recs |-> << >>, ret |-> RetNone,
          raised |-> [type |-> "ValueError",
                      val |-> "Prompt must be a non-empty string"],
          mem |-> mem, hist |-> hist]
    ELSE LET pr == process_reasoning(prompt, now)
             mem1 == IF DOMAIN context # {} THEN Update(mem, context) ELSE mem
         IN [recs |-> pr.recs, ret |-> pr.ret, raised |-> pr.raised,
             mem |-> mem1,
             hist |-> Append(hist, [timestamp |-> now, prompt |-> prompt,
                                    response |-> pr.ret.v])]

\* The try block of think: the records it logs, the value it returns or the
\* error it raises, and the state it leaves.
think_try(prompt, context, mem, hist, now) ==
    IF ~Truthy(prompt) \/ prompt.kind # "str"
    THEN [recs |-> << >>, ret |-> RetNone,
          raised |-> [type |-> "ValueError",
                      val |-> "Prompt must be a non-empty string"],
          mem |-> mem, hist |-> hist]
    ELSE LET r1 == << BrainRec(51, INFO,
                        << "Processing prompt",
                           Take(prompt.chars, PromptLogLen) >>, NoExc, now) >>
             upd == DOMAIN context # {}
             mem1 == IF upd THEN Update(mem, context) ELSE mem
             r2 == IF upd
                   THEN << BrainRec(56, DEBUG,
                             << "Memory context updated",
                                Cardinality(DOMAIN context) >>, NoExc, now) >>
                   ELSE << >>
             pr == process_reasoning(prompt, now)
         IN IF pr.raised # NoExc
            THEN [recs |-> r1 \o r2 \o pr.recs, ret |-> RetNone,
                  raised |-> pr.raised, mem |-> mem1, hist |-> hist]
            ELSE [recs |-> r1 \o r2 \o pr.recs \o
                           << BrainRec(68, INFO,
                                << "Reasoning completed successfully",
                                   Len(pr.ret.v) >>, NoExc, now) >>,
                  ret |-> pr.ret, raised |-> NoExc, mem |-> mem1,
                  hist |-> Append(hist, [timestamp |-> now,
                                         prompt |-> prompt,
                                         response |-> pr.ret.v])]

\* Except clauses of think that treat ValueError like every other error.
think_except_reraise(t, now) ==
    IF t.raised = NoExc THEN t
    ELSE [t EXCEPT !.recs = @ \o << BrainRec(75, ERROR,
                                      << "Error during reasoning",
                                         t.raised.val >>, t.raised, now) >>]

\* The except clauses of think.
think_except(t, now) ==
    IF t.raised = NoExc THEN t
    ELSE IF t.raised.type = "ValueError"
    THEN [t EXCEPT !.recs = @ \o << BrainRec(72, WARNING,
                                      << "Invalid input for reasoning",
                                         t.raised.val >>, NoExc, now) >>,
                   !.ret = RetNone, !.raised = NoExc]
    ELSE [t EXCEPT !.recs = @ \o << BrainRec(75, ERROR,
                                      << "Error during reasoning",
                                         t.raised.val >>, t.raised, now) >>]

think(prompt, context, mem, hist, now) ==
    With(Label("Brain.think", ""),
         think_except(think_try(prompt, context, mem, hist, now), now), now)

recall_memory(key, mem, hist, now) ==
    With(Label("Brain.recall_memory", key),
         IF key \in DOMAIN mem
         THEN [recs |-> << BrainRec(116, INFO, << "Memory recalled", key >>,
                                    NoExc, now) >>,
               ret |-> RetValue(mem[key]), raised |-> NoExc,
               mem |-> mem, hist |-> hist]
         ELSE [recs |-> << BrainRec(119, WARNING,
                             << "Memory key not found", key >>, NoExc, now) >>,
               ret |-> RetNone, raised |-> NoExc, mem |-> mem, hist |-> hist],
         now)

\* store_memory that reports success without storing.
store_memory_drop(key, value, mem, hist, now) ==
    With(Label("Brain.store_memory", key),
         [recs |-> << BrainRec(142, INFO, << "Memory stored", key, "str" >>,
                               NoExc, now) >>,
          ret |-> RetBool(TRUE), raised |-> NoExc, mem |-> mem, hist |-> hist],
         now)

store_memory(key, value, mem, hist, now) ==
    LET e == [type |-> "ValueError", val |-> "Memory key cannot be empty"]
    IN With(Label("Brain.store_memory", key),
            IF key = ""
            THEN [recs |-> << BrainRec(146, ERROR,
                                << "Error storing memory", e.val >>, e, now) >>,
                  ret |-> RetBool(FALSE), raised |-> NoExc,
                  mem |-> mem, hist |-> hist]
            ELSE [recs |-> << BrainRec(142, INFO,
                                << "Memory stored", key, "str" >>,
                                NoExc, now) >>,
                  ret |-> RetBool(TRUE), raised |-> NoExc,
                  mem |-> SetItem(mem, key, value), hist |-> hist],
            now)

get_conversation_history(mem, hist, now) ==
    [recs |-> << BrainRec(157, INFO,
                   << "Returning conversation history", Len(hist) >>,
                   NoExc, now) >>,
     ret |-> RetList(hist), raised |-> NoExc, mem |-> mem, hist |-> hist]

----------------------------------------------------------------------------
(* Inputs *)

ValidPrompt == Str(<< "M","L","?" >>)
FailingPrompt == Str(ErrorWord)

Prompts ==
    { Str(<< >>),
      ValidPrompt,
      Str(<< "a"," ","E","r","R","o","r","!" >>),
      Str(<< "e","r","o","r" >>),
      IntPrompt(42) }

Contexts == { [k \in {"k1"} |-> "v2"] }

\* The arguments think is called with: every prompt of Prompts without a
\* context, and a valid and a failing prompt with one.
ThinkInputs ==
    { << p, EmptyDict >> : p \in Prompts } \cup
    { << p, c >> : p \in {ValidPrompt, FailingPrompt}, c \in Contexts }

AppLabels == { Label("job", "") }

WorkError == [type |-> "KeyError", val |-> "work"]

----------------------------------------------------------------------------
(* State machine *)

Last(s) == s[Len(s)]
Front(s) == SubSeq(s, 1, Len(s) - 1)

Configured(name) == loggers[name].handlers # << >>

\* The application may take another step: the module is imported and no
\* error is in flight.
StepsTaken == Cardinality({ i \in 1..Len(trace) : trace[i].op # "exit" })

CanCall ==
    /\ loaded = "ok"
    /\ exc = NoExc
    /\ StepsTaken < MaxSteps

\* A step of the application that is no call of the two modules' functions.
Step(op, arg) ==
    [op |-> op, arg |-> arg, ret |-> RetNone, raised |-> NoExc,
     ev0 |-> Len(events), ev1 |-> Len(events')]

\* The effect of a call whose outcome is o.
Finish(op, arg, o) ==
    /\ Emit(o.recs)
    /\ memory_context' = o.mem
    /\ conversation_history' = o.hist
    /\ exc' = o.raised
    /\ trace' = Append(trace, [op |-> op, arg |-> arg, ret |-> o.ret,
                               raised |-> o.raised, ev0 |-> Len(events),
                               ev1 |-> Len(events')])

InitRecord ==
    BrainRec(30, INFO, << "Nia Brain Core initialized successfully" >>,
             NoExc, 0)

\* The program once logging_config has been imported (LOG_DIR.mkdir and
\* logger = setup_logging("nia_core") at module level) and a NiaBrainCore
\* has been constructed, on a file system without faults.
Init ==
    /\ fault = {}
    /\ loaded = "ok"
    /\ loggers = [n \in Names |-> IF n = "nia_core"
                                  THEN setup_logging(FreshLogger).logger
                                  ELSE FreshLogger]
    /\ LET res == LogAll(<< InitRecord >>, loggers, << >>,
                         [d \in Dests |-> << >>])
       IN /\ events = res.events
          /\ sinkOut = res.sinkOut
    /\ clock = 0
    /\ brain = TRUE
    /\ memory_context = EmptyDict
    /\ conversation_history = << >>
    /\ ctx = << >>
    /\ stack = << >>
    /\ exc = NoExc
    /\ trace = << >>

\* The process before it imports logging_config, on a file system that has
\* at most one fault.
InitFault ==
    /\ fault \in { {} } \cup { {f} : f \in Faults }
    /\ loaded = "no"
    /\ loggers = [n \in Names |-> FreshLogger]
    /\ events = << >>
    /\ sinkOut = [d \in Dests |-> << >>]
    /\ clock = 0
    /\ brain = FALSE
    /\ memory_context = EmptyDict
    /\ conversation_history = << >>
    /\ ctx = << >>
    /\ stack = << >>
    /\ exc = NoExc
    /\ trace = << >>

\* import logging_config: LOG_DIR.mkdir, then logger = setup_logging("nia_core").
\* A failed import leaves no module, but the logging registry keeps what
\* setup_logging attached before it raised.
Import ==
    /\ loaded # "ok"
    /\ exc = NoExc
    /\ LET r == IF "mkdir" \in fault
                THEN [logger |-> loggers["nia_core"],
                      raised |-> [type |-> "OSError", val |-> "logs"]]
                ELSE setup_logging(loggers["nia_core"])
       IN /\ loggers' = [loggers EXCEPT !["nia_core"] = r.logger]
          /\ loaded' = IF r.raised = NoExc THEN "ok" ELSE "failed"
          /\ exc' = r.raised
    /\ UNCHANGED << fault, events, sinkOut, clock, brain, memory_context,
                    conversation_history, ctx, stack, trace >>

\* setup_logging(name) called by the application.
SetupLogging(name) ==
    /\ CanCall
    /\ LET r == setup_logging(loggers[name])
       IN /\ loggers' = [loggers EXCEPT ![name] = r.logger]
          /\ exc' = r.raised
          /\ trace' = Append(trace, [op |-> "setup_logging", arg |-> name,
                                     ret |-> RetValue(name),
                                     raised |-> r.raised,
                                     ev0 |-> Len(events), ev1 |-> Len(events)])
    /\ UNCHANGED << fault, loaded, events, sinkOut, clock, brain,
                    memory_context, conversation_history, ctx, stack >>

\* logger.debug/info/warning/error/critical called by the application.
LogCall(name, sev) ==
    /\ CanCall
    /\ Configured(name)
    /\ Finish("log", [name |-> name, levelno |-> sev],
              [recs |-> << LogRecord(name, sev, "brain_core.py", 167,
                                     << "app" >>, NoExc, clock) >>,
               ret |-> RetNone, raised |-> NoExc,
               mem |-> memory_context, hist |-> conversation_history])
    /\ UNCHANGED << fault, loaded, loggers, clock, brain, ctx, stack >>

\* NiaBrainCore(config)
BrainInit ==
    /\ loaded = "ok"
    /\ exc = NoExc
    /\ ~brain
    /\ brain' = TRUE
    /\ memory_context' = EmptyDict
    /\ conversation_history' = << >>
    /\ Emit(<< [InitRecord EXCEPT !.created = clock] >>)
    /\ UNCHANGED << fault, loaded, loggers, clock, ctx, stack, exc, trace >>

Think(prompt, context) ==
    /\ CanCall
    /\ brain
    /\ Finish("think", [prompt |-> prompt, context |-> context],
              think(prompt, context, memory_context, conversation_history,
                    clock))
    /\ UNCHANGED << fault, loaded, loggers, clock, brain, ctx, stack >>

RecallMemory(key) ==
    /\ CanCall
    /\ brain
    /\ Finish("recall_memory", [key |-> key],
              recall_memory(key, memory_context, conversation_history, clock))
    /\ UNCHANGED << fault, loaded, loggers, clock, brain, ctx, stack >>

StoreMemory(key, value) ==
    /\ CanCall
    /\ brain
    /\ Finish("store_memory", [key |-> key, value |-> value],
              store_memory(key, value, memory_context, conversation_history,
                           clock))
    /\ UNCHANGED << fault, loaded, loggers, clock, brain, ctx, stack >>

GetConversationHistory ==
    /\ CanCall
    /\ brain
    /\ Finish("get_conversation_history", [none |-> None],
              get_conversation_history(memory_context, conversation_history,
                                       clock))
    /\ UNCHANGED << fault, loaded, loggers, clock, brain, ctx, stack >>

\* LogContext(operation_name, logger_instance) constructed by the application.
NewContext(operation, name) ==
    /\ CanCall
    /\ Configured(name)
    /\ ctx' = Append(ctx, LogContext_init(operation, name))
    /\ UNCHANGED << events, sinkOut >>
    /\ trace' = Append(trace, Step("LogContext", Len(ctx) + 1))
    /\ UNCHANGED << fault, loaded, loggers, clock, brain, memory_context,
                    conversation_history, stack, exc >>

\* with c: ... -- the with statement calls c.__enter__().
ScopeEnter(i) ==
    /\ CanCall
    /\ LET en == LogContext_enter(ctx[i], clock)
       IN /\ ctx' = [ctx EXCEPT ![i] = en.self]
          /\ Emit(en.recs)
    /\ stack' = Append(stack, i)
    /\ trace' = Append(trace, Step("enter", i))
    /\ UNCHANGED << fault, loaded, loggers, clock, brain, memory_context,
                    conversation_history, exc >>

\* The work inside the innermost with-block takes a second.
Work ==
    /\ CanCall
    /\ stack # << >>
    /\ clock < MaxClock
    /\ clock' = clock + 1
    /\ UNCHANGED << events, sinkOut >>
    /\ trace' = Append(trace, Step("work", Last(stack)))
    /\ UNCHANGED << fault, loaded, loggers, brain, memory_context,
                    conversation_history, ctx, stack, exc >>

\* The work inside the innermost with-block raises.
WorkRaises ==
    /\ CanCall
    /\ stack # << >>
    /\ exc' = WorkError
    /\ UNCHANGED << events, sinkOut >>
    /\ trace' = Append(trace, [Step("raise", Last(stack))
                                 EXCEPT !.raised = WorkError])
    /\ UNCHANGED << fault, loaded, loggers, clock, brain, memory_context,
                    conversation_history, ctx, stack >>

\* The innermost with-block ends, normally or by the error in flight: the
\* with statement calls __exit__ and drops the error when it returns true.
ScopeExit ==
    /\ stack # << >>
    /\ LET ex == LogContext_exit(ctx[Last(stack)], exc, clock)
       IN /\ Emit(ex.recs)
          /\ exc' = IF ex.suppress THEN NoExc ELSE exc
    /\ stack' = Front(stack)
    /\ trace' = Append(trace, [Step("exit", Last(stack))
                                 EXCEPT !.raised = exc])
    /\ UNCHANGED << fault, loaded, loggers, clock, brain, memory_context,
                    conversation_history, ctx >>

\* Application code catches the error in flight (outside every with-block).
AppCatch ==
    /\ exc # NoExc
    /\ stack = << >>
    /\ exc' = NoExc
    /\ UNCHANGED << fault, loaded, loggers, events, sinkOut, clock, brain,
                    memory_context, conversation_history, ctx, stack, trace >>

Next ==
    \/ \E n \in Names : SetupLogging(n)
    \/ \E n \in Names, sev \in Severities : LogCall(n, sev)
    \/ \E in \in ThinkInputs : Think(in[1], in[2])
    \/ \E k \in Keys : RecallMemory(k)
    \/ \E k \in Keys, v \in Values : StoreMemory(k, v)
    \/ GetConversationHistory
    \/ \E l \in AppLabels, n \in Names : NewContext(l, n)
    \/ \E i \in 1..Len(ctx) : ScopeEnter(i)
    \/ Work
    \/ WorkRaises
    \/ ScopeExit
    \/ AppCatch

Spec == Init /\ [][Next]_vars

\* The same program in an environment whose file system may fail.
NextFault ==
    \/ Import
    \/ BrainInit
    \/ Next

SpecFault == InitFault /\ [][NextFault]_vars

----------------------------------------------------------------------------
(* Properties *)

Tag(r) == r.msg[1]

ScopeOf(r) == [logger |-> r.name, operation |-> r.msg[2]]

IsStart(r, lg, operation) ==
    /\ Tag(r) = "START"
    /\ ScopeOf(r) = [logger |-> lg, operation |-> operation]
    /\ r.levelno = INFO

IsComplete(r, lg, operation) ==
    /\ Tag(r) = "COMPLETE"
    /\ ScopeOf(r) = [logger |-> lg, operation |-> operation]
    /\ r.levelno = INFO

IsFailed(r, lg, operation) ==
    /\ Tag(r) = "FAILED"
    /\ ScopeOf(r) = [logger |-> lg, operation |-> operation]
    /\ r.levelno = ERROR

\* The scopes that evs leaves open, outermost first: a START opens a scope,
\* a COMPLETE or FAILED closes the innermost open one, which must be its own.
RECURSIVE Brackets(_, _, _)
Brackets(evs, i, open) ==
    IF i > Len(evs) THEN [ok |-> TRUE, open |-> open]
    ELSE IF Tag(evs[i]) = "START"
    THEN Brackets(evs, i + 1, Append(open, ScopeOf(evs[i])))
    ELSE IF Tag(evs[i]) \in {"COMPLETE", "FAILED"}
    THEN IF open # << >> /\ Last(open) = ScopeOf(evs[i])
         THEN Brackets(evs, i + 1, Front(open))
         ELSE [ok |-> FALSE, open |-> open]
    ELSE Brackets(evs, i + 1, open)

ScopedOps == {"think", "recall_memory", "store_memory"}

\* The label of the scope that a call of NiaBrainCore opens first.
OpLabel(t) ==
    CASE t.op = "think" -> Label("Brain.think", "")
      [] t.op = "recall_memory" -> Label("Brain.recall_memory", t.arg.key)
      [] t.op = "store_memory" -> Label("Brain.store_memory", t.arg.key)

\* The events a step of the application emitted.
Window(t) == (t.ev0 + 1)..t.ev1

\* C1: every LogContext scope that is entered emits exactly one START at
\* entry and exactly one terminal event at exit, COMPLETE when no error is in
\* flight and FAILED when one is: the START and terminal events of the
\* stream nest like brackets, the scopes they leave open are exactly the
\* with-blocks still running, an entry emits the one START of its scope, an
\* exit emits the one terminal event of its scope, and every scoped call of
\* NiaBrainCore begins with its START and ends with its terminal event.
C1_ScopeEmitsStartAndOneTerminal ==
    LET b == Brackets(events, 1, << >>)
    IN /\ b.ok
       /\ Len(b.open) = Len(stack)
       /\ \A k \in 1..Len(stack) :
            b.open[k] = [logger |-> ctx[stack[k]].logger,
                         operation |-> ctx[stack[k]].operation]
       /\ \A j \in 1..Len(trace) :
            LET t == trace[j]
            IN /\ t.op = "enter" =>
                    /\ t.ev1 = t.ev0 + 1
                    /\ IsStart(events[t.ev1], ctx[t.arg].logger,
                               ctx[t.arg].operation)
               /\ t.op = "exit" =>
                    /\ t.ev1 = t.ev0 + 1
                    /\ IF t.raised = NoExc
                       THEN IsComplete(events[t.ev1], ctx[t.arg].logger,
                                       ctx[t.arg].operation)
                       ELSE IsFailed(events[t.ev1], ctx[t.arg].logger,
                                     ctx[t.arg].operation)
               /\ t.op \in ScopedOps =>
                    /\ t.ev1 >= t.ev0 + 2
                    /\ IsStart(events[t.ev0 + 1], "nia_core", OpLabel(t))
                    /\ IF t.raised = NoExc
                       THEN IsComplete(events[t.ev1], "nia_core", OpLabel(t))
                       ELSE IsFailed(events[t.ev1], "nia_core", OpLabel(t))
                    /\ Brackets(SubSeq(events, t.ev0 + 1, t.ev1), 1, << >>)
                         = [ok |-> TRUE, open |-> << >>]
                    /\ Cardinality({ i \in Window(t) :
                            /\ Tag(events[i]) \in {"START", "COMPLETE", "FAILED"}
                            /\ events[i].msg[2] = OpLabel(t) }) = 2

\* A with-block of the application was left by an error, inside another
\* scope or not, and a call of NiaBrainCore raised out of its scopes.
C1_Witness ==
    /\ \E j \in 1..Len(trace) : trace[j].op = "exit" /\ trace[j].raised # NoExc
    /\ \E j \in 1..Len(trace) : trace[j].op = "think" /\ trace[j].raised # NoExc

\* C2: when the work wrapped by a LogContext raises, the scope does not
\* swallow the error: leaving the with-block emits the FAILED event of that
\* error, the same error stays in flight towards the caller, and nothing but
\* the log changes; and whenever a step emits a FAILED event, for a scope of
\* the application or of NiaBrainCore, the error of that event is the one in
\* flight after the step.
C2_ErrorPropagatesAfterFailed ==
    [][ /\ (Len(stack') < Len(stack) /\ exc # NoExc) =>
          /\ exc' = exc
          /\ Len(events') = Len(events) + 1
          /\ IsFailed(Last(events'), ctx[Last(stack)].logger,
                      ctx[Last(stack)].operation)
          /\ Last(events').exc_info = exc
          /\ Last(events').msg[4] = exc.type
          /\ UNCHANGED << loggers, memory_context, conversation_history,
                          brain, loaded, ctx >>
        /\ \A i \in (Len(events) + 1)..Len(events') :
             Tag(events'[i]) = "FAILED" =>
               /\ events'[i].exc_info # NoExc
               /\ exc' = events'[i].exc_info ]_vars

\* An error left the outermost with-block and is in flight at its caller.
C2_Witness ==
    /\ trace # << >>
    /\ Last(trace).op = "exit"
    /\ Last(trace).raised # NoExc
    /\ exc = Last(trace).raised
    /\ stack = << >>

\* The minimum severity of each of the four sinks.
SinkThreshold(d) ==
    CASE d = ERROR_LOG -> ERROR
      [] d = INFO_LOG -> INFO
      [] d = AUDIT_LOG -> INFO
      [] d = CONSOLE -> WARNING

\* The records that the lines of destination d render, in the order of the
\* lines.
Rendered(d) == [j \in 1..Len(sinkOut[d]) |-> sinkOut[d][j].rec]

\* The accepted records from the i-th on whose severity is at least lvl.
RECURSIVE AtOrAbove(_, _)
AtOrAbove(lvl, i) ==
    IF i > Len(events) THEN << >>
    ELSE IF events[i].levelno >= lvl
    THEN << i >> \o AtOrAbove(lvl, i + 1)
    ELSE AtOrAbove(lvl, i + 1)

C5_LoggingFaultNeverPropagates ==
    /\ loaded # "failed"
    /\ exc.type # "OSError"
    /\ \A j \in 1..Len(trace) : trace[j].raised.type # "OSError"

\* A step that writes key k of memory_context.
Writes(t, k) ==
    \/ t.op = "store_memory" /\ t.arg.key = k
    \/ t.op = "think" /\ k \in DOMAIN t.arg.context

\* recall_memory(k) at step j follows store_memory(k, v) at step i with no
\* write to k in between.
RoundTrip(i, j) ==
    /\ i < j
    /\ trace[i].op = "store_memory"
    /\ trace[j].op = "recall_memory"
    /\ trace[j].arg.key = trace[i].arg.key
    /\ \A h \in (i + 1)..(j - 1) : ~Writes(trace[h], trace[i].arg.key)

Returned(t, v) == t.raised = NoExc /\ t.ret.kind = "value" /\ t.ret.v = v

\* recall_memory of a key that nothing wrote returns None and does not raise.
RecallAbsent ==
    \A j \in 1..Len(trace) :
        ( /\ trace[j].op = "recall_memory"
          /\ \A h \in 1..(j - 1) : ~Writes(trace[h], trace[j].arg.key) )
        => (trace[j].ret = RetNone /\ trace[j].raised = NoExc)

\* C6 as claimed: for every key k and value v, store_memory(k, v) followed by
\* recall_memory(k) with no intervening write to k returns v, and
\* recall_memory of a key never stored returns None and does not raise.
C6_RoundTripEveryKey ==
    /\ \A i, j \in 1..Len(trace) :
         RoundTrip(i, j) => Returned(trace[j], trace[i].arg.value)
    /\ RecallAbsent

\* C6 amended: the round trip holds for every non-empty key k; recall_memory
\* of a key never written returns None and does not raise.
C6_RoundTripNonEmptyKey ==
    /\ \A i, j \in 1..Len(trace) :
         (RoundTrip(i, j) /\ trace[i].arg.key # "")
         => Returned(trace[j], trace[i].arg.value)
    /\ RecallAbsent

\* A value stored over another one under a non-empty key was recalled.
C6_Witness ==
    \E i, j \in 1..Len(trace) :
        /\ RoundTrip(i, j)
        /\ trace[i].arg.key # ""
        /\ \E h \in 1..(i - 1) :
              /\ Writes(trace[h], trace[i].arg.key)
              /\ trace[h].op = "store_memory"
              /\ trace[h].arg.value # trace[i].arg.value
        /\ Returned(trace[j], trace[i].arg.value)

\* Letters that differ at most in case.
FoldEq(a, b) ==
    \/ a = b
    \/ \E k \in 1..Len(UpperAlpha) : {a, b} = {UpperAlpha[k], LowerAlpha[k]}

\* The string holds "error" in some letter case.
HasErrorAnyCase(cs) ==
    \E i \in 1..(Len(cs) - Len(ErrorWord) + 1) :
        \A j \in 1..Len(ErrorWord) : FoldEq(cs[i + j - 1], ErrorWord[j])

\* C7: think with a string prompt that contains "error" in any letter case
\* raises a processing error to its caller, after the scope of
\* Brain._process_reasoning() and then the scope of Brain.think() have each
\* emitted FAILED at ERROR severity, and neither has emitted COMPLETE.
C7_ErrorPromptRaisesAfterBothFailed ==
    \A j \in 1..Len(trace) :
        LET t == trace[j]
        IN ( /\ t.op = "think"
             /\ t.arg.prompt.kind = "str"
             /\ HasErrorAnyCase(t.arg.prompt.chars) )
           => /\ t.raised.type = "RuntimeError"
              /\ \E a, b \in Window(t) :
                    /\ a < b
                    /\ IsFailed(events[a], "nia_core",
                                Label("Brain._process_reasoning", ""))
                    /\ IsFailed(events[b], "nia_core", Label("Brain.think", ""))
              /\ \A i \in Window(t) : Tag(events[i]) # "COMPLETE"

\* think raised for a prompt that holds the word in mixed case.
C7_Witness ==
    \E j \in 1..Len(trace) :
        /\ trace[j].op = "think"
        /\ trace[j].arg.prompt.kind = "str"
        /\ HasErrorAnyCase(trace[j].arg.prompt.chars)
        /\ ~Contains(trace[j].arg.prompt.chars, ErrorWord)
        /\ trace[j].raised.type = "RuntimeError"

\* C8: invalid input is absorbed where it arises: think with an empty or
\* non-string prompt returns None, store_memory with an empty key returns
\* False, in both cases no error reaches the caller and the scope of the call
\* ends with COMPLETE and without FAILED; the only error that leaves a scope
\* of NiaBrainCore is the processing error.
C8_InvalidInputAbsorbed ==
    \A j \in 1..Len(trace) :
        LET t == trace[j]
        IN /\ ( /\ t.op = "think"
                /\ \/ t.arg.prompt.kind # "str"
                   \/ t.arg.prompt.chars = << >> )
              => /\ t.ret = RetNone
                 /\ t.raised = NoExc
                 /\ IsComplete(events[t.ev1], "nia_core", OpLabel(t))
                 /\ \A i \in Window(t) : Tag(events[i]) # "FAILED"
           /\ (t.op = "store_memory" /\ t.arg.key = "")
              => /\ t.ret.kind = "bool"
                 /\ t.ret.v = FALSE
                 /\ t.raised = NoExc
                 /\ IsComplete(events[t.ev1], "nia_core", OpLabel(t))
                 /\ \A i \in Window(t) : Tag(events[i]) # "FAILED"
           /\ (t.op \in ScopedOps \cup {"get_conversation_history"})
              => /\ t.raised.type \in {"None", "RuntimeError"}
                 /\ \A i \in Window(t) :
                       Tag(events[i]) = "FAILED"
                       => events[i].msg[4] = "RuntimeError"

\* think was called with a non-string prompt and store_memory with an empty
\* key.
C8_Witness ==
    /\ \E j \in 1..Len(trace) :
          trace[j].op = "think" /\ trace[j].arg.prompt.kind = "int"
    /\ \E j \in 1..Len(trace) :
          trace[j].op = "store_memory" /\ trace[j].arg.key = ""

\* The entries and exits of LogContext instance i so far.
EntriesOf(i) == { j \in 1..Len(trace) : trace[j].op = "enter" /\ trace[j].arg = i }
ExitsOf(i) == { j \in 1..Len(trace) : trace[j].op = "exit" /\ trace[j].arg = i }

\* C9: a LogContext instance goes ENTERED -> EXITED once: it is entered at
\* most once, it exits only after its entry, and it is never entered again.
C9_InstanceEnteredAtMostOnce ==
    \A i \in 1..Len(ctx) :
        /\ Cardinality(EntriesOf(i)) <= 1
        /\ Cardinality(ExitsOf(i)) <= Cardinality(EntriesOf(i))

\* C10: conversation_history is append-only and grows only on success: a
\* think call that returns a response appends one entry with that prompt and
\* that response at the end; every other step leaves the list as it is.
C10_HistoryAppendOnlyOnSuccess ==
    [][ IF /\ Len(trace') > Len(trace)
           /\ Last(trace').op = "think"
           /\ Last(trace').ret.kind = "str"
        THEN /\ Len(conversation_history') = Len(conversation_history) + 1
             /\ Front(conversation_history') = conversation_history
             /\ Last(conversation_history').prompt = Last(trace').arg.prompt
             /\ Last(conversation_history').response = Last(trace').ret.v
        ELSE conversation_history' = conversation_history ]_vars

\* A second successful think appended its entry behind the first.
C10_Witness ==
    /\ Len(conversation_history) = 2
    /\ Last(trace).op = "think"
    /\ Last(trace).ret.kind = "str"

====
